---- MODULE Spec2Model ----
(***************************************************************************)
(* A model of attrstance/validators.py: the four type-checking validators  *)
(* (InstanceOf, SubclassOf, AllInstanceOf, AllSubclassOf), the validation   *)
(* of their whitelist at construction, their factory functions and the     *)
(* error-message formatter they share.                                     *)
(*                                                                         *)
(* Python objects are named by strings.  A candidate value is a record     *)
(* [k, n, items]: an atom (a type object or an instance, named n), a list  *)
(* (its elements in items) or the one-shot iterator object whose remaining *)
(* elements are the state variable it.                                     *)
(***************************************************************************)
EXTENDS Naturals, Sequences, FiniteSets

\* ------------------------------------------------------------- bounds
MaxArgs == 2    \* most arguments given to a factory call
MaxLen == 2     \* longest list handed to a validator
MaxTypes == 3   \* most expected types handed to format_message directly

\* ------------------------------------------------- the Python universe
TypeNames == {"int", "bool", "str"}
InstNames == {"3", "True", "a"}
ArgAtoms == {"int", "str", "3"}
ListElems == {"bool", "3"}
ClassNames == {"InstanceOf", "SubclassOf", "AllInstanceOf", "AllSubclassOf"}

\* the names of a list object and of the iterator object
ListName == "[..]"
IterName == "<iterator>"

\* type(x) for the objects of the universe
TypeOf(n) ==
  CASE n = "3" -> "int"
    [] n = "True" -> "bool"
    [] n = "a" -> "str"
    [] n = ListName -> "list"
    [] n = IterName -> "list_iterator"
    [] OTHER -> "type"

\* the classes in the method resolution order of a class
Mro(c) ==
  CASE c = "bool" -> {"bool", "int", "object"}
    [] OTHER -> {c, "object"}

\* isinstance(x, type): x is a class object
IsType(n) == "type" \in Mro(TypeOf(n))

\* isinstance(n, t)
isinstance(n, t) == t \in Mro(TypeOf(n))

\* issubclass(n, c), defined for a class n only
issubclass(n, c) == c \in Mro(n)

Atom(n) == [k |-> "atom", n |-> n, items |-> <<>>]
List(s) == [k |-> "list", n |-> "", items |-> s]
TheIter == [k |-> "iter", n |-> "", items |-> <<>>]

SeqsUpTo(S, m) == UNION {[1..l -> S] : l \in 0..m}
Lists == SeqsUpTo(ListElems, MaxLen)
Values ==
  {Atom(n) : n \in TypeNames \cup InstNames} \cup {List(s) : s \in Lists} \cup {TheIter}

\* the orders in which a frozenset may be iterated
Orderings(S) ==
  {s \in [1..Cardinality(S) -> S] : \A i, j \in DOMAIN s : i # j => s[i] # s[j]}

\* ------------------------------------------------------------ outcomes
\* What a call does: it returns, or raises an exception of a kind, out of a
\* stage (the method of the validator that was running), with the exception's
\* message (a sequence of tokens) and the rest of its args.
Return == [kind |-> "return", stage |-> "", msg |-> <<>>, args |-> <<>>]
Raise(kind, stage, msg, args) ==
  [kind |-> kind, stage |-> stage, msg |-> msg, args |-> args]

Lit(s) == <<"lit", s>>
Repr(n) == <<"repr", n>>

\* --------------------------------------------------- message formatter
\* oxford_comma: a generator object; yields holds what it would yield
oxford_comma(t) ==
  LET n == IF Len(t) > 1 THEN 1 ELSE 0
  IN [k |-> "generator",
      yields |-> [i \in 1..Len(t) |->
                    IF (i - 1) + n < Len(t) THEN "{!r}" ELSE "or {!r}"]]

\* "{:s}".format(j): format(j, "s").  A str is inserted; any other object
\* falls to object.__format__, which rejects a non-empty format spec.
FormatS(j) ==
  IF j.k = "str"
  THEN [raised |-> FALSE, kind |-> "", text |-> j.yields]
  ELSE [raised |-> TRUE, kind |-> "TypeError",
        text |-> <<Lit("unsupported format string passed to generator.__format__")>>]

\* error_message: the template, with the joined expected types put in
error_message(t) ==
  LET j == oxford_comma(t)
      f == FormatS(j)
  IN IF f.raised THEN f
     ELSE [f EXCEPT !.text =
             <<"'{name:s}'", "{constraint:s}">> \o f.text
               \o <<"({compliment:s}", "{value!r}", "that is", "{actual!r})">>]

\* The value a message shows: its repr and its type.
Shown(r, t) == [repr |-> r, type |-> t]
ShownAtom(n) == Shown(n, TypeOf(n))

\* m.format(*t, name=.., constraint=.., compliment=.., value=.., actual=..)
RECURSIVE Fill(_, _, _, _, _, _)
Fill(m, t, a, s, v, c) ==
  IF m = <<>> THEN <<>>
  ELSE LET h == Head(m)
       IN CASE h = "'{name:s}'" -> <<Lit(a)>> \o Fill(Tail(m), t, a, s, v, c)
            [] h = "{constraint:s}" -> <<Lit(c)>> \o Fill(Tail(m), t, a, s, v, c)
            [] h = "({compliment:s}" -> <<Lit("("), Lit(s)>> \o Fill(Tail(m), t, a, s, v, c)
            [] h = "{value!r}" -> <<Repr(v.repr)>> \o Fill(Tail(m), t, a, s, v, c)
            [] h = "{actual!r})" -> <<Repr(v.type), Lit(")")>> \o Fill(Tail(m), t, a, s, v, c)
            [] h = "{!r}" -> <<Repr(Head(t))>> \o Fill(Tail(m), Tail(t), a, s, v, c)
            [] h = "or {!r}" -> <<Lit("or"), Repr(Head(t))>> \o Fill(Tail(m), Tail(t), a, s, v, c)
            [] OTHER -> <<Lit(h)>> \o Fill(Tail(m), t, a, s, v, c)

\* format_message(a, s, v, c, *t)
format_message(a, s, v, c, t) ==
  LET m == error_message(t)
  IN IF m.raised THEN m
     ELSE [m EXCEPT !.text = Fill(m.text, t, a, s, v, c)]

\* m = format_message(...); raise TypeError(m, *args): the exception that
\* leaves the stage, which is format_message's own when it raises
RaiseTypeError(stage, m, args) ==
  IF m.raised THEN Raise(m.kind, stage, m.text, <<>>)
  ELSE Raise("TypeError", stage, m.text, args)

\* -------------------------------------------------------- construction
\* the container handed to a validator class as its whitelist
FrozenSet(S) == [kind |-> "frozenset", elems |-> S]
PyList(S) == [kind |-> "list", elems |-> S]

\* the arguments of a factory call: up to MaxArgs of them, in every order,
\* with one call that repeats an argument
Range(s) == {s[i] : i \in DOMAIN s}
ArgSeqs ==
  {s \in SeqsUpTo(ArgAtoms, MaxArgs) : Cardinality(Range(s)) = Len(s)}
    \cup {<<"int", "int">>}
Containers ==
  {FrozenSet(Range(s)) : s \in ArgSeqs} \cup {PyList({}), PyList({"int"})}

\* whitelist.validator is_frozenset
is_frozenset(v) ==
  IF v.kind # "frozenset"
  THEN {RaiseTypeError("is_frozenset",
          format_message("whitelist", "is", Shown("v", v.kind), "must be", <<"frozenset">>),
          <<"a", "v">>)}
  ELSE {Return}

\* whitelist.validator not_empty
not_empty(v) ==
  IF ~(Cardinality(v.elems) > 0)
  THEN {RaiseTypeError("not_empty",
          format_message("whitelist", "is", Shown("v", v.kind), "must be non-empty",
                         <<"frozenset">>),
          <<"a", "v">>)}
  ELSE {Return}

\* whitelist.validator only_types: the outcomes over the iteration orders
only_types(v) ==
  IF \E x \in v.elems : ~IsType(x)
  THEN {RaiseTypeError("only_types",
          format_message("whitelist", "has", ShownAtom(x), "must contain", <<"type">>),
          <<"a", "x">>) : x \in {y \in v.elems : ~IsType(y)}}
  ELSE {Return}

\* the validators without not_empty
ValidateWhitelist_no_not_empty(v) ==
  IF is_frozenset(v) # {Return} THEN is_frozenset(v) ELSE only_types(v)

\* the validators of the whitelist attribute, run in the order they are
\* declared; the first that raises ends the construction
ValidateWhitelist(v) ==
  IF is_frozenset(v) # {Return} THEN is_frozenset(v)
  ELSE IF not_empty(v) # {Return} THEN not_empty(v)
  ELSE only_types(v)

\* ---------------------------------------------------------- invocation
\* the name of a candidate as isinstance and issubclass see it
NameOf(v) ==
  CASE v.k = "atom" -> v.n
    [] v.k = "list" -> ListName
    [] OTHER -> IterName

\* type(v) and repr(v) of a candidate value
PyType(v) == TypeOf(NameOf(v))
ShownValue(v) == Shown(NameOf(v), PyType(v))

\* iter(v) succeeds: a list, an iterator, a str
IsIterable(v) == v.k \in {"list", "iter"} \/ (v.k = "atom" /\ PyType(v) = "str")

\* what iter(v) yields: a list's elements, the iterator's remaining
\* elements, the characters of a str (each a str of length one)
Elements(v, rest) ==
  CASE v.k = "list" -> v.items
    [] v.k = "iter" -> rest
    [] OTHER -> <<v.n>>

\* is_instance comparing type(v) with each whitelist member instead of
\* asking isinstance: an instance of a subclass is then no instance
is_instance_exact(w, n) == [k |-> "generator", yields |-> {TypeOf(n) = t : t \in w}]

\* InstanceOf.is_instance(v): a generator object over the whitelist
is_instance(w, n) == [k |-> "generator", yields |-> {isinstance(n, t) : t \in w}]

\* SubclassOf.is_subclass(v): a generator object over the whitelist; its
\* first step raises TypeError when v is no class
is_subclass(w, n) ==
  [k |-> "generator",
   raises |-> w # {} /\ ~IsType(n),
   yields |-> IF IsType(n) THEN {issubclass(n, c) : c \in w} ELSE {}]

\* any(g): consumes the generator
any(g) == TRUE \in g.yields

\* bool(g), as `not g` takes it: a generator object defines neither
\* __bool__ nor __len__, so it is true whatever it would yield
Truth(g) == IF g.k = "generator" THEN TRUE ELSE any(g)

\* the attributes a validator class has (slots=True: no others can exist)
Attributes(cls) ==
  {"whitelist", "is_frozenset", "not_empty", "only_types", "__call__"}
    \cup (IF cls \in {"InstanceOf", "AllInstanceOf"} THEN {"is_instance"} ELSE {"is_subclass"})

\* self.format_message(a, s, v, c, *t): an attribute lookup on the validator
self_format_message(cls, a, s, v, c, t) ==
  IF "format_message" \in Attributes(cls)
  THEN format_message(a, s, v, c, t)
  ELSE [raised |-> TRUE, kind |-> "AttributeError",
        text |-> <<Lit("object has no attribute 'format_message'")>>]

\* the index of the first element of s that is in Bad, 0 when there is none
FirstIn(s, Bad) ==
  IF \E i \in DOMAIN s : s[i] \in Bad
  THEN CHOOSE i \in DOMAIN s : s[i] \in Bad /\ \A j \in 1..(i - 1) : s[j] \notin Bad
  ELSE 0

\* what a for loop that stops at index i (0: runs to the end) leaves in the
\* iterator it walks
Consumed(s, i) == IF i = 0 THEN <<>> ELSE SubSeq(s, i + 1, Len(s))

\* InstanceOf.__call__(i, a, v); ws is the whitelist in iteration order
InstanceOf_call(ws, v) ==
  LET w == {ws[i] : i \in DOMAIN ws}
  IN IF ~any(is_instance(w, NameOf(v)))
     THEN RaiseTypeError("__call__",
            format_message("x", "is", ShownValue(v), "must be", ws),
            <<"a", "whitelist", "v">>)
     ELSE Return

\* SubclassOf.__call__(c, a, v)
SubclassOf_call(ws, v) ==
  LET w == {ws[i] : i \in DOMAIN ws}
      g == is_subclass(w, NameOf(v))
  IN IF g.raises
     THEN RaiseTypeError("__call__",
            format_message("x", "is", ShownValue(v), "must be", <<"type">>),
            <<"a", "v">>)
     ELSE IF ~any(g)
     THEN RaiseTypeError("__call__",
            format_message("x", "is", ShownValue(v), "must be a subclass of", ws),
            <<"a", "whitelist", "v">>)
     ELSE Return

\* AllInstanceOf.__call__(c, a, v): [out, rest], the outcome and what is
\* left of the iterator
AllInstanceOf_call(ws, v, rest) ==
  LET w == {ws[i] : i \in DOMAIN ws}
      g == Elements(v, rest)
      bad == {x \in ListElems \cup InstNames : ~Truth(is_instance(w, x))}
      i == FirstIn(g, bad)
  IN IF ~IsIterable(v)
     THEN [out |-> RaiseTypeError("__call__",
                     format_message("x", "is", ShownValue(v), "must be", <<"Iterable">>),
                     <<"a", "v">>),
           rest |-> rest]
     ELSE [out |-> IF i = 0 THEN Return
                   ELSE RaiseTypeError("__call__",
                          format_message("x", "has", ShownAtom(g[i]), "must contain", ws),
                          <<"a", "whitelist", "v">>),
           rest |-> IF v.k = "iter" THEN Consumed(g, i) ELSE rest]

\* AllSubclassOf.__call__(c, a, v): [out, rest]
AllSubclassOf_call(ws, v, rest) ==
  LET w == {ws[i] : i \in DOMAIN ws}
      g == Elements(v, rest)
      nontype == {x \in ListElems \cup InstNames : is_subclass(w, x).raises}
      nosub == {x \in ListElems \cup InstNames : ~any(is_subclass(w, x))}
      i == FirstIn(g, nontype \cup nosub)
  IN IF ~IsIterable(v)
     THEN [out |-> RaiseTypeError("__call__",
                     self_format_message("AllSubclassOf", "x", "is", ShownValue(v),
                                         "must be", <<"Iterable">>),
                     <<"a", "v">>),
           rest |-> rest]
     ELSE [out |-> IF i = 0 THEN Return
                   ELSE IF g[i] \in nontype
                   THEN RaiseTypeError("__call__",
                          self_format_message("AllSubclassOf", "x", "has", ShownAtom(g[i]),
                                              "must contain", <<"type">>),
                          <<"a", "v">>)
                   ELSE RaiseTypeError("__call__",
                          self_format_message("AllSubclassOf", "x", "has", ShownAtom(g[i]),
                                              "must contain subclass of", ws),
                          <<"a", "whitelist", "v">>),
           rest |-> IF v.k = "iter" THEN Consumed(g, i) ELSE rest]

\* a whitelist kept as a one-shot iterator: the first walk exhausts it
Iterated_once(ws) == <<>>

\* what `for t in self.whitelist` leaves of the whitelist: a frozenset is
\* iterated again from its start, every time, in the same order
Iterated(ws) == ws

\* validator(owner, a, v), by the validator's class
Invoke(cls, ws, v, rest) ==
  LET r == CASE cls = "InstanceOf" -> [out |-> InstanceOf_call(ws, v), rest |-> rest]
             [] cls = "SubclassOf" -> [out |-> SubclassOf_call(ws, v), rest |-> rest]
             [] cls = "AllInstanceOf" -> AllInstanceOf_call(ws, v, rest)
             [] OTHER -> AllSubclassOf_call(ws, v, rest)
  IN [out |-> r.out, rest |-> r.rest, order |-> Iterated(ws)]

\* __setattr__ of a class that is not frozen: the assignment happens
setattr_assigns(obj, w) ==
  [obj |-> [obj EXCEPT !.whitelist = w.elems,
                       !.order = CHOOSE ws \in Orderings(w.elems) : TRUE],
   out |-> Return]

\* attr.s(frozen=True): __setattr__ of an instance raises FrozenInstanceError
\* and assigns nothing; [obj, out]
setattr(obj, w) ==
  [obj |-> obj,
   out |-> Raise("FrozenInstanceError", "__setattr__", <<>>, <<>>)]

NoValidator == [cls |-> "None", whitelist |-> {}, order |-> <<>>]
NoOutcome == [kind |-> "none", stage |-> "", msg |-> <<>>, args |-> <<>>]

VARIABLES
  p,      \* the validator the program holds (NoValidator before the first)
  it,     \* the one-shot iterator object: [live, rest]
  last    \* the last operation: [op, fn, arg, out, again], again being the
          \* outcome of the call before it when that was the same call

vars == <<p, it, last>>

Init ==
  /\ p = NoValidator
  /\ it = [live |-> FALSE, rest |-> <<>>]
  /\ last = [op |-> "init", fn |-> "", arg |-> FrozenSet({}), out |-> Return,
             again |-> NoOutcome]

\* p = cls(w): __init__ stores the whitelist and runs its validators; the
\* instance exists for the caller only when none of them raises
New(fn, cls, w) ==
  \E o \in ValidateWhitelist(w) :
    /\ last' = [op |-> "construct", fn |-> fn, arg |-> w, out |-> o, again |-> NoOutcome]
    /\ IF o = Return
       THEN \E ws \in Orderings(w.elems) :
              p' = [cls |-> cls, whitelist |-> w.elems, order |-> ws]
       ELSE p' = p
    /\ UNCHANGED it

Construct == \E cls \in ClassNames, w \in Containers : New(cls, cls, w)

instance_of == \E args \in ArgSeqs : New("instance_of", "InstanceOf", FrozenSet(Range(args)))

subclass_of == \E args \in ArgSeqs : New("subclass_of", "SubclassOf", FrozenSet(Range(args)))

all_instance_of ==
  \E args \in ArgSeqs : New("all_instance_of", "AllInstanceOf", FrozenSet(Range(args)))

all_subclass_of ==
  \E args \in ArgSeqs : New("all_subclass_of", "SubclassOf", FrozenSet(Range(args)))

\* the framework calls the validator it holds with (owner, a, v)
Call(cls) ==
  /\ p.cls = cls
  /\ \E v \in Values :
       /\ v.k = "iter" => it.live
       /\ LET r == Invoke(cls, p.order, v, it.rest)
          IN /\ last' = [op |-> "call", fn |-> cls, arg |-> v, out |-> r.out,
                         again |-> IF last.op = "call" /\ last.arg = v
                                   THEN last.out ELSE NoOutcome]
             /\ it' = [it EXCEPT !.rest = r.rest]
             \* __call__ assigns nothing; the validator is what its walks left
             /\ p' = [p EXCEPT !.order = r.order,
                               !.whitelist = {r.order[i] : i \in DOMAIN r.order}]

InstanceOfCall == Call("InstanceOf")

SubclassOfCall == Call("SubclassOf")

AllInstanceOfCall == Call("AllInstanceOf")

AllSubclassOfCall == Call("AllSubclassOf")

\* validator.whitelist = w: frozen=True makes __setattr__ raise
SetWhitelist ==
  /\ p # NoValidator
  /\ \E x \in ArgAtoms :
       LET w == FrozenSet({x})
           r == setattr(p, w)
       IN /\ p' = r.obj
          /\ last' = [op |-> "setattr", fn |-> p.cls, arg |-> w, out |-> r.out,
                      again |-> NoOutcome]
  /\ UNCHANGED it

\* the program makes a one-shot iterator over a list: iter(s)
NewIter ==
  \E s \in Lists :
    /\ it' = [live |-> TRUE, rest |-> s]
    /\ last' = [op |-> "iter", fn |-> "iter", arg |-> List(s), out |-> Return,
                again |-> NoOutcome]
    /\ UNCHANGED p

Next ==
  \/ Construct \/ instance_of \/ subclass_of \/ all_instance_of \/ all_subclass_of
  \/ InstanceOfCall \/ SubclassOfCall \/ AllInstanceOfCall \/ AllSubclassOfCall
  \/ SetWhitelist \/ NewIter

Spec == Init /\ [][Next]_vars

\* ------------------------------------------- the formatter on its own
Phrases ==
  {<<"is", "must be">>, <<"has", "must contain">>, <<"is", "must be a subclass of">>}
TypeSeqs == SeqsUpTo(TypeNames, MaxTypes) \ {<<>>}

\* format_message(a, s, v, c, *t) called with one to MaxTypes expected types
FormatCall ==
  \E ph \in Phrases, n \in TypeNames \cup InstNames, t \in TypeSeqs :
    LET m == format_message("x", ph[1], ShownAtom(n), ph[2], t)
    IN /\ last' = [op |-> "format", fn |-> "format_message",
                   arg |-> [s |-> ph[1], c |-> ph[2], v |-> n, t |-> t],
                   out |-> IF m.raised THEN Raise(m.kind, "format_message", m.text, <<>>)
                           ELSE [Return EXCEPT !.msg = m.text],
                   again |-> NoOutcome]
       /\ UNCHANGED <<p, it>>

SpecFmt == Init /\ [][FormatCall]_vars

\* ================================================================ claims
Called(cls) == last.op = "call" /\ last.fn = cls
Mentions(msg, tok) == \E i \in DOMAIN msg : msg[i] = tok
InstanceOfAny(n, W) == \E t \in W : isinstance(n, t)
SubclassOfAny(n, W) == IsType(n) /\ \E c \in W : issubclass(n, c)

\* C1: a call of an InstanceOf validator raises a TypeError exactly when the
\* value is an instance of no member of the whitelist, and returns otherwise.
C1_InstanceOfRaisesIff ==
  Called("InstanceOf") =>
    IF InstanceOfAny(NameOf(last.arg), p.whitelist)
    THEN last.out = Return
    ELSE last.out.kind = "TypeError"

\* C1 witness: InstanceOf over {int} was called with the str "a" and raised.
C1_Witness ==
  /\ Called("InstanceOf") /\ p.whitelist = {"int"}
  /\ last.arg = Atom("a") /\ last.out.kind = "TypeError"

\* C2: a call of a SubclassOf validator with a type raises the "must be a
\* subclass of" TypeError exactly when the type is a subclass of no member of
\* the whitelist; with a value that is no type it raises the distinct "must
\* be <type>" TypeError, whose args leave the whitelist out.
C2_SubclassOfErrors ==
  Called("SubclassOf") =>
    IF ~IsType(NameOf(last.arg))
    THEN /\ last.out.kind = "TypeError"
         /\ Mentions(last.out.msg, Lit("must be"))
         /\ Mentions(last.out.msg, Repr("type"))
         /\ last.out.args = <<"a", "v">>
    ELSE IF SubclassOfAny(NameOf(last.arg), p.whitelist)
    THEN last.out = Return
    ELSE /\ last.out.kind = "TypeError"
         /\ Mentions(last.out.msg, Lit("must be a subclass of"))

\* C3: a call of an AllInstanceOf validator with a collection raises a
\* TypeError exactly when some element is an instance of no member of the
\* whitelist; the empty collection passes.
C3_AllInstanceOfRaisesIff ==
  (Called("AllInstanceOf") /\ last.arg.k = "list") =>
    IF \A i \in DOMAIN last.arg.items : InstanceOfAny(last.arg.items[i], p.whitelist)
    THEN last.out = Return
    ELSE last.out.kind = "TypeError"

\* C4: a call of an all-elements validator with a value that cannot be
\* iterated raises the iterability TypeError: relation "is", constraint "must
\* be", expected Iterable, args the field and the value.
C4_NotIterableError ==
  ((Called("AllInstanceOf") \/ Called("AllSubclassOf")) /\ ~IsIterable(last.arg)) =>
    /\ last.out.kind = "TypeError"
    /\ Mentions(last.out.msg, Lit("is"))
    /\ Mentions(last.out.msg, Lit("must be"))
    /\ Mentions(last.out.msg, Repr("Iterable"))
    /\ last.out.args = <<"a", "v">>

\* C5: a call of an AllSubclassOf validator with a collection raises a
\* TypeError exactly when some element is no type or is a type that is a
\* subclass of no member of the whitelist: "must contain <type>" when the
\* first such element is no type, "must contain subclass of" when it is a type.
C5_AllSubclassOfErrors ==
  (Called("AllSubclassOf") /\ last.arg.k = "list") =>
    LET s == last.arg.items
        bad == {i \in DOMAIN s : ~SubclassOfAny(s[i], p.whitelist)}
    IN IF bad = {} THEN last.out = Return
       ELSE LET i == CHOOSE j \in bad : \A l \in bad : j <= l
            IN /\ last.out.kind = "TypeError"
               /\ IF IsType(s[i])
                  THEN Mentions(last.out.msg, Lit("must contain subclass of"))
                  ELSE /\ Mentions(last.out.msg, Lit("must contain"))
                       /\ Mentions(last.out.msg, Repr("type"))

\* C6: each factory returns the validator of its own kind, so that a call of
\* what all_subclass_of returns does what a call of AllSubclassOf over the
\* same whitelist does.
OwnKind(fn) ==
  CASE fn = "instance_of" -> "InstanceOf"
    [] fn = "subclass_of" -> "SubclassOf"
    [] fn = "all_instance_of" -> "AllInstanceOf"
    [] OTHER -> "AllSubclassOf"
C6_FactoryOwnKind ==
  (/\ last.op = "construct" /\ last.out = Return
   /\ last.fn \in {"instance_of", "subclass_of", "all_instance_of", "all_subclass_of"}) =>
    /\ p.cls = OwnKind(last.fn)
    /\ \A v \in Values :
         Invoke(p.cls, p.order, v, it.rest).out
           = Invoke(OwnKind(last.fn), p.order, v, it.rest).out

\* C7: a construction succeeds exactly when the whitelist is a frozenset, is
\* not empty and holds only types; otherwise it raises out of the first of
\* these checks that fails, in this order, and yields no validator.  So every
\* validator that exists holds a non-empty whitelist of types.
ValidContainer(w) ==
  w.kind = "frozenset" /\ w.elems # {} /\ \A x \in w.elems : IsType(x)
FirstFailing(w) ==
  IF w.kind # "frozenset" THEN "is_frozenset"
  ELSE IF w.elems = {} THEN "not_empty" ELSE "only_types"
C7_Step ==
  /\ last'.op = "construct" =>
       IF ValidContainer(last'.arg)
       THEN last'.out = Return /\ p'.whitelist = last'.arg.elems
       ELSE /\ last'.out.kind = "TypeError"
            /\ last'.out.stage = FirstFailing(last'.arg)
            /\ p' = p
  /\ p' # NoValidator => (p'.whitelist # {} /\ \A x \in p'.whitelist : IsType(x))
C7_WhitelistValidAtConstruction == [][C7_Step]_vars

\* C7 witness: with a validator in hand, a construction over a whitelist
\* holding a value that is no type raised out of only_types.
C7_Witness ==
  /\ last.op = "construct" /\ last.out.kind = "TypeError"
  /\ last.out.stage = "only_types" /\ "3" \in last.arg.elems
  /\ p # NoValidator

\* C8: format_message returns the text '<name>' <constraint> <joined types>
\* (<relation> <repr(value)> that is <repr(type(value))>), the types joined
\* by the oxford-comma rule.
RECURSIVE Commas(_)
Commas(t) ==
  IF Len(t) = 1 THEN <<Lit("or"), Repr(t[1])>>
  ELSE <<Repr(Head(t)), Lit(",")>> \o Commas(Tail(t))
OxfordJoined(t) ==
  CASE Len(t) = 1 -> <<Repr(t[1])>>
    [] Len(t) = 2 -> <<Repr(t[1]), Lit("or"), Repr(t[2])>>
    [] OTHER -> Commas(t)
C8_FormatShape ==
  last.op = "format" =>
    /\ last.out.kind = "return"
    /\ last.out.msg =
         <<Lit("x"), Lit(last.arg.c)>> \o OxfordJoined(last.arg.t)
           \o <<Lit("("), Lit(last.arg.s), Repr(last.arg.v), Lit("that is"),
                Repr(TypeOf(last.arg.v)), Lit(")")>>

\* C9 as stated: a call repeated with the same validator and the same value,
\* a reused one-shot iterator included, has the outcome of the call before.
C9_SameOutcomeAlways ==
  (last.op = "call" /\ last.again # NoOutcome) => last.out = last.again

\* C9 amended: a call repeated with the same validator and the same value has
\* the outcome of the call before, unless the value is a one-shot iterator
\* handed to an all-elements validator.
C9_SameOutcome ==
  (/\ last.op = "call" /\ last.again # NoOutcome
   /\ ~(last.arg.k = "iter" /\ last.fn \in {"AllInstanceOf", "AllSubclassOf"})) =>
    last.out = last.again

\* C9 witness: an AllSubclassOf validator was called twice in a row with the
\* same list and raised both times.
C9_Witness ==
  /\ Called("AllSubclassOf") /\ last.arg.k = "list"
  /\ last.again # NoOutcome /\ last.out.kind # "return"

\* C10: no call of a validator and no assignment to its whitelist changes the
\* validator; the assignment raises.
C10_Step ==
  last'.op \in {"call", "setattr"} =>
    /\ p' = p
    /\ last'.op = "setattr" => last'.out.kind = "FrozenInstanceError"
C10_WhitelistFixed == [][C10_Step]_vars

\* C10 witness: an assignment of another whitelist was rejected.
C10_Witness ==
  /\ last.op = "setattr" /\ last.out.kind = "FrozenInstanceError"
  /\ p.whitelist # last.arg.elems
====
